---------------------------- MODULE Spec2Model ----------------------------
(***************************************************************************)
(* A model of the AWSDrupalCDK infrastructure program.                     *)
(*                                                                         *)
(* Three parts, each with its own specification over the same variables:   *)
(*   SpecAsm     the stack constructors (assembly), one action per         *)
(*               statement group of each __init__, run on arbitrary        *)
(*               present/absent handles and on the call sites of app.py    *)
(*               and DrupalStage;                                          *)
(*   SpecDeploy  provisioning of the app's stacks in dependency order and  *)
(*               the executions of the declared pipeline;                  *)
(*   SpecEcr     pushes to the image repository and its lifecycle rule.    *)
(***************************************************************************)
EXTENDS Integers, Sequences, FiniteSets, TLC

VARIABLES
    \* ---- assembly (one stack constructor call) ----
    site,        \* where the constructor is called from
    cls,         \* the stack class under construction
    args,        \* the constructor's keyword arguments
    pc,          \* position in the constructor
    declared,    \* construct ids declared in the stack so far
    err,         \* the exception raised, or "none"
    props,       \* properties of the declared service / backup selection
    secretStore, \* the secret store of the account: secret name -> value
    env,         \* the environment app.py reads: account and region
    registry,    \* the stacks app.py has finished constructing
    caller,      \* the suspended constructor while a stage is instantiated
    \* ---- provisioning and pipeline executions ----
    appStatus,   \* status of each top-level stack of app.py
    run,         \* number of pipeline executions started
    pipe,        \* state of the current pipeline execution
    stageState,  \* state of each pipeline stage in the current execution
    stepStatus,  \* status of each pipeline step in the current execution
    stackStatus, \* status of each stack of each stage
    stepEnv,     \* the SERVICE_URL each post step was started with
    \* ---- image repository ----
    images,      \* images in the repository, oldest first
    pushes,      \* number of pushes so far
    applied,     \* the lifecycle rule has run since the last push
    evicted      \* push numbers of the images last evicted, and of the survivors' oldest

ctxVars == <<secretStore, env, registry, caller>>
asmVars == <<site, cls, args, pc, declared, err, props, ctxVars>>
deployVars == <<appStatus, run, pipe, stageState, stepStatus, stackStatus, stepEnv>>
ecrVars == <<images, pushes, applied, evicted>>
vars == <<asmVars, deployVars, ecrVars>>

-----------------------------------------------------------------------------
(* Bounds *)

MaxRuns == 2
MaxPushes == 7
\* largest datapoint of a metric
MaxSample == 100
\* runs of the image build job beside the provisioning and the pipeline
MaxBuilds == 2
\* most availability zones a region offers an account
MaxZones == 3

-----------------------------------------------------------------------------
(* Values *)

\* Python's None for an object handle
NoHandle == [handle |-> "None"]
\* Python's None for an Optional[str]
NoneStr == "None"

\* `if x` / `not x` for an object handle: only None is falsy
Falsy(h) == h.handle = "None"
\* `if s` for an Optional[str]: None and "" are falsy
TruthyStr(s) == s # NoneStr /\ s # ""

\* network_stack.vpc
VpcHandle == [handle |-> "vpc", construct |-> "DrupalVPC",
              subnet_types |-> {"PRIVATE_WITH_EGRESS", "PUBLIC"}]
\* a VPC that has public subnets only
PublicOnlyVpc == [handle |-> "vpc", construct |-> "Imported",
                  subnet_types |-> {"PUBLIC"}]
\* db_stack.cluster
ClusterHandle == [handle |-> "cluster", construct |-> "DrupalDB"]
\* ecr_stack.repository
RepositoryHandle == [handle |-> "repository", construct |-> "DrupalRepository",
                     repository_name |-> "drupal-repository"]
\* a repository handle whose name is empty (an imported repository)
UnnamedRepository == [handle |-> "repository", construct |-> "Imported",
                      repository_name |-> ""]
\* service_stack.file_system
FileSystemHandle == [handle |-> "file_system", construct |-> "DrupalFiles"]

NoArgs == [vpc |-> NoHandle, database |-> NoHandle, repository |-> NoHandle,
           file_system |-> NoHandle, certificate_arn |-> NoneStr,
           domain_name |-> NoneStr]

SomeCertificateArn == "arn:aws:acm:cert"
SomeDomainName == "example.com"

\* the secrets the stacks name, and what the account's store may hold for them
SecretNames == {"DBCredentials", "github-token", "github-token-codebuild",
                "dockerhub-credentials"}
SecretValues == {"hunter2", "correct-horse"}
Stores == [SecretNames -> SecretValues]

\* CDK_DEFAULT_ACCOUNT / CDK_DEFAULT_REGION: unset, or one of two values
Accounts == {NoneStr, "111111111111", "222222222222"}
Regions == {NoneStr, "us-east-1", "eu-west-1"}
\* with the zones the region offers the account, never fewer than two
Envs == [account : Accounts, region : Regions, zones : 2..MaxZones]
NoEnv == [account |-> NoneStr, region |-> NoneStr, zones |-> 2]

\* no constructor is suspended
NoFrame == [site |-> "none"]


-----------------------------------------------------------------------------
(* Program constants of the service component *)

\* ApplicationLoadBalancedFargateService(desired_count=2)
DesiredCount == 2
\* auto_scale_task_count(min_capacity=2)
MinCapacity == 2
\* auto_scale_task_count(max_capacity=6)
MaxCapacity == 6

NoProps == [protocol |-> "unset", certificate |-> NoneStr, dns |-> NoneStr,
            desired_count |-> 0, min_capacity |-> 0, max_capacity |-> 0,
            selection |-> <<>>, credentials |-> {}, uses |-> {},
            alarms |-> {}, zones |-> {}, subnets |-> {}, nat_zones |-> {}]

-----------------------------------------------------------------------------
(* The constructor calls *)

StackClasses == {"NetworkStack", "DatabaseStack", "ECRStack",
                 "DrupalServiceStack", "BackupStack"}

\* the first statement of each constructor, after super().__init__
FirstPc(c) ==
    CASE c = "NetworkStack" -> "vpc"
      [] c = "DatabaseStack" -> "security_group"
      [] c = "ECRStack" -> "repository"
      [] c = "DrupalServiceStack" -> "validate"
      [] c = "BackupStack" -> "vault"
      [] c = "PipelineStack" -> "pipeline_role"

\* app.py: the five stacks instantiated with the handles of their producers
AppCalls ==
    { [site |-> "app.py", cls |-> "NetworkStack", args |-> NoArgs],
      [site |-> "app.py", cls |-> "DatabaseStack",
       args |-> [NoArgs EXCEPT !.vpc = VpcHandle]],
      [site |-> "app.py", cls |-> "ECRStack", args |-> NoArgs],
      [site |-> "app.py", cls |-> "DrupalServiceStack",
       args |-> [NoArgs EXCEPT !.vpc = VpcHandle, !.database = ClusterHandle,
                               !.repository = RepositoryHandle]],
      [site |-> "app.py", cls |-> "BackupStack",
       args |-> [NoArgs EXCEPT !.database = ClusterHandle,
                               !.file_system = FileSystemHandle]] }

\* app.py: the pipeline stack, constructed last
PipelineCall == [site |-> "app.py", cls |-> "PipelineStack", args |-> NoArgs]

\* DrupalStage.__init__: ECR, Network, Database, Service of one stage
StageCalls(stage) ==
    { [site |-> stage, cls |-> "ECRStack", args |-> NoArgs],
      [site |-> stage, cls |-> "NetworkStack", args |-> NoArgs],
      [site |-> stage, cls |-> "DatabaseStack",
       args |-> [NoArgs EXCEPT !.vpc = VpcHandle]],
      [site |-> stage, cls |-> "DrupalServiceStack",
       args |-> [NoArgs EXCEPT !.vpc = VpcHandle, !.database = ClusterHandle,
                               !.repository = RepositoryHandle]] }

\* the constructors called directly, on every combination of present and
\* absent handles and optional strings their signatures admit
DirectCalls ==
    { [site |-> "direct", cls |-> "DatabaseStack",
       args |-> [NoArgs EXCEPT !.vpc = v]] :
         v \in {NoHandle, VpcHandle, PublicOnlyVpc} }
    \cup
    { [site |-> "direct", cls |-> "BackupStack",
       args |-> [NoArgs EXCEPT !.database = d, !.file_system = f]] :
         d \in {NoHandle, ClusterHandle}, f \in {NoHandle, FileSystemHandle} }
    \cup
    { [site |-> "direct", cls |-> "DrupalServiceStack",
       args |-> [NoArgs EXCEPT !.vpc = a[1], !.database = a[2],
                               !.repository = a[3], !.certificate_arn = a[4],
                               !.domain_name = a[5]]] :
         a \in {NoHandle, VpcHandle} \X {NoHandle, ClusterHandle}
               \X {NoHandle, UnnamedRepository, RepositoryHandle}
               \X {NoneStr, "", SomeCertificateArn}
               \X {NoneStr, "", SomeDomainName} }

Calls == AppCalls \cup StageCalls("Dev") \cup StageCalls("Prod") \cup DirectCalls

\* the calls app.py makes, the pipeline stack and its stages included
ProgramCalls == AppCalls \cup {PipelineCall} \cup StageCalls("Dev") \cup StageCalls("Prod")

-----------------------------------------------------------------------------
(* Steps of a constructor *)

\* the statement declares the constructs `ids` and control moves on
Declare(next, ids) ==
    /\ pc' = next
    /\ declared' = declared \cup ids
    /\ UNCHANGED <<site, cls, args, err, props, ctxVars, deployVars, ecrVars>>

\* the statement raises after having declared the constructs `ids`
RaiseAfter(e, ids) ==
    /\ pc' = "raised"
    /\ err' = e
    /\ declared' = declared \cup ids
    /\ UNCHANGED <<site, cls, args, props, ctxVars, deployVars, ecrVars>>

Raise(e) == RaiseAfter(e, {})

\* a value the template carries by the name of a secret and a field: it is
\* resolved from the store when the stack is deployed ("reference"), made by
\* the store itself ("generated"), or fetched by the running step ("runtime")
Opaque(kind, secret, field) ==
    [kind |-> kind, secret |-> secret, field |-> field, text |-> ""]
\* a value written into the template as it is
Literal(text) == [kind |-> "literal", secret |-> "", field |-> "", text |-> text]

\* a variant that unwraps the secret's value into the container definition
FromSecretsManagerUnwrapped(secret, field, store) == Literal(store[secret])

\* ecs.Secret.from_secrets_manager(secret, field)
FromSecretsManager(secret, field, store) == Opaque("reference", secret, field)
\* SecretValue.secrets_manager(name)
SecretsManager(secret, store) == Opaque("reference", secret, "")
\* rds.Credentials.from_secret(secret)
FromSecret(secret, store) == Opaque("reference", secret, "password")

\* the values the statement `step` writes where a credential, or a setting
\* next to it, is expected, assembled in an account whose store is `store`
CredentialBindings(step, store) ==
    LET B(name, credential, value) ==
            [step |-> step, name |-> name, credential |-> credential,
             value |-> value]
    IN  CASE step = "DatabaseSecret" ->
               { B("DBCredentials.username", FALSE, Literal("admin")),
                 B("DBCredentials.password", TRUE,
                   Opaque("generated", "DBCredentials", "password")) }
          [] step = "DatabaseCluster" ->
               { B("DrupalDB.credentials", TRUE, FromSecret("DBCredentials", store)) }
          [] step = "CreateContainerDefinition" ->
               { B("environment.DB_NAME", FALSE, Literal("drupal")),
                 B("environment.DRUPAL_ENV", FALSE, Literal("production")),
                 B("secrets.DB_USER", TRUE,
                   FromSecretsManager("DBCredentials", "username", store)),
                 B("secrets.DB_PASSWORD", TRUE,
                   FromSecretsManager("DBCredentials", "password", store)) }
          [] step = "EcrBuildProject" ->
               { B("pre_build.DOCKERHUB_CREDS", TRUE,
                   Opaque("runtime", "dockerhub-credentials", "")),
                 B("pre_build.ecr_login", TRUE,
                   Opaque("runtime", "ecr get-login-password", "")) }
          [] step = "EcrGitHubCredentials" ->
               { B("access_token", TRUE,
                   SecretsManager("github-token-codebuild", store)) }
          [] step = "PipelineCodePipeline" ->
               { B("Synth.authentication", TRUE,
                   SecretsManager("github-token", store)) }
          [] step = "PipelineAddDevStage" ->
               { B("BuildAndPushImage.ecr_login", TRUE,
                   Opaque("runtime", "ecr get-login-password", "")) }
          [] OTHER -> {}

\* a variant in which a grant always adds a statement to the resource's policy
GrantTargetsResourceToo(resourceAccount, principalAccount) ==
    {"principal", "resource"}

\* Grant.add_to_principal_or_resource, as grant_pull and grant_read use it:
\* the statement is added to the principal's policy, and to the resource's
\* own policy only when the resource lives in another account
GrantTargets(resourceAccount, principalAccount) ==
    IF resourceAccount = principalAccount
      THEN {"principal"} ELSE {"principal", "resource"}

\* what the statement `step` does with the handles among the arguments a:
\* the handle's construct, the operation, and the constructs whose
\* configuration the operation changes
HandleUses(step, a, account) ==
    LET Read(h, attr) == [handle |-> h.construct, op |-> attr, changes |-> {}]
        Grant(h, op, principal) ==
            [handle |-> h.construct, op |-> op,
             changes |-> { IF t = "principal" THEN principal ELSE h.construct :
                             t \in GrantTargets(account, account) }]
    IN  CASE step = "DatabaseSecurityGroup" -> { Read(a.vpc, "vpc") }
          [] step = "DatabaseCluster" -> { Read(a.vpc, "vpc") }
          [] step = "CreateEcsCluster" -> { Read(a.vpc, "vpc") }
          [] step = "CreateEfs" -> { Read(a.vpc, "vpc") }
          [] step = "CreateRedisCluster" -> { Read(a.vpc, "select_subnets") }
          [] step = "CreateTaskDefinition" ->
               { Grant(a.repository, "grant_pull", "DrupalTaskDef") }
          [] step = "CreateContainerDefinition" ->
               { Grant(a.repository, "from_ecr_repository", "DrupalTaskDef"),
                 Read(a.database, "cluster_endpoint"),
                 Grant(a.database, "secret.grant_read", "DrupalTaskDef") }
          [] step = "CreateOutputs" -> { Read(a.repository, "repository_uri") }
          [] step = "BackupAddSelection" ->
               { Read(a.database, "cluster_arn"),
                 Read(a.file_system, "file_system_arn") }
          [] OTHER -> {}

\* the statement declares the constructs `ids` with the credential bindings
\* it writes and the uses it makes of the handles, and control moves on
DeclareWith(next, ids, step) ==
    /\ pc' = next
    /\ declared' = declared \cup ids
    /\ props' = [props EXCEPT
          !.credentials = @ \cup CredentialBindings(step, secretStore),
          !.uses = @ \cup HandleUses(step, args, env.account)]
    /\ UNCHANGED <<site, cls, args, err, ctxVars, deployVars, ecrVars>>

\* a construct given None for a required property is rejected by the
\* toolkit when its properties are built, before the construct exists
TypeErr == "TypeError"
\* an attribute read on None
AttrErr == "AttributeError"
\* vpc.select_subnets finds no subnet of the requested type
NoSubnetsErr == "RuntimeError: There are no 'Private' subnet groups in this VPC"


-----------------------------------------------------------------------------
(* NetworkStack.__init__ *)

\* Vpc(max_azs=2)
MaxAzs == 2
\* Vpc(nat_gateways=2)
NatGateways == 2
\* Vpc(subnet_configuration=[...])
SubnetConfiguration ==
    << [name |-> "Private", subnet_type |-> "PRIVATE_WITH_EGRESS"],
       [name |-> "Public", subnet_type |-> "PUBLIC"] >>

\* the zones the stack sees: two placeholders when its account or region is
\* not set, the zones of the region otherwise
AvailabilityZones(e) ==
    IF e.account = NoneStr \/ e.region = NoneStr THEN 1..2 ELSE 1..e.zones

\* the VPC uses the first max_azs of them
VpcZones(e) == { z \in AvailabilityZones(e) : z <= MaxAzs }

\* one subnet per zone and entry of the subnet configuration
VpcSubnets(zones, configuration) ==
    { [zone |-> z, name |-> configuration[i].name,
       subnet_type |-> configuration[i].subnet_type] :
        z \in zones, i \in 1..Len(configuration) }

\* a variant that places a single NAT gateway
NatZonesSingle(zones, n) == { z \in zones : z <= 1 }

\* the NAT gateways go to the public subnets of the first n zones
NatZones(zones, n) == { z \in zones : z <= n }

NetworkVpc ==
    /\ cls = "NetworkStack" /\ pc = "vpc"
    /\ pc' = "tags"
    /\ declared' = declared \cup {"DrupalVPC"}
    /\ props' = [props EXCEPT
          !.zones = VpcZones(env),
          !.subnets = VpcSubnets(VpcZones(env), SubnetConfiguration),
          !.nat_zones = NatZones(VpcZones(env), NatGateways)]
    /\ UNCHANGED <<site, cls, args, err, ctxVars, deployVars, ecrVars>>

NetworkTags ==
    /\ cls = "NetworkStack" /\ pc = "tags"
    /\ Declare("done", {})

-----------------------------------------------------------------------------
(* DatabaseStack.__init__: no check of vpc; the first construct receives it *)

DatabaseSecurityGroup ==
    /\ cls = "DatabaseStack" /\ pc = "security_group"
    /\ IF Falsy(args.vpc)
         THEN Raise(TypeErr)
         ELSE DeclareWith("secret", {"DBSecurityGroup"}, "DatabaseSecurityGroup")

DatabaseSecret ==
    /\ cls = "DatabaseStack" /\ pc = "secret"
    /\ DeclareWith("cluster", {"DBCredentials"}, "DatabaseSecret")

\* DatabaseCluster(vpc_subnets=SubnetSelection(PRIVATE_WITH_EGRESS)): the
\* subnets are selected when the cluster's subnet group is built
DatabaseCluster ==
    /\ cls = "DatabaseStack" /\ pc = "cluster"
    /\ IF Falsy(args.vpc)
         THEN Raise(TypeErr)
         ELSE IF "PRIVATE_WITH_EGRESS" \notin args.vpc.subnet_types
           THEN Raise(NoSubnetsErr)
         ELSE DeclareWith("done", {"DrupalDB"}, "DatabaseCluster")

-----------------------------------------------------------------------------
(* BackupStack.__init__: the handles are first read in add_selection *)

BackupVault ==
    /\ cls = "BackupStack" /\ pc = "vault"
    /\ Declare("plan", {"DrupalBackupVault"})

BackupPlan ==
    /\ cls = "BackupStack" /\ pc = "plan"
    /\ Declare("rule", {"DrupalBackupPlan"})

BackupAddRule ==
    /\ cls = "BackupStack" /\ pc = "rule"
    /\ Declare("selection", {})

\* resources=[from_arn(database.cluster_arn), from_arn(file_system.file_system_arn)]
BackupResources(database, file_system) ==
    <<[arn_of |-> database.construct], [arn_of |-> file_system.construct]>>

BackupAddSelection ==
    /\ cls = "BackupStack" /\ pc = "selection"
    /\ IF Falsy(args.database) \/ Falsy(args.file_system)
         THEN Raise(AttrErr)
         ELSE /\ pc' = "done"
              /\ declared' = declared \cup {"DrupalBackupSelection"}
              /\ props' = [props EXCEPT
                    !.selection = BackupResources(args.database, args.file_system),
                    !.uses = @ \cup HandleUses("BackupAddSelection", args,
                                               env.account)]
              /\ UNCHANGED <<site, cls, args, err, ctxVars, deployVars, ecrVars>>

-----------------------------------------------------------------------------
(* ECRStack.__init__ *)

EcrRepository ==
    /\ cls = "ECRStack" /\ pc = "repository"
    /\ Declare("lifecycle", {"DrupalRepository"})

EcrLifecycleRule ==
    /\ cls = "ECRStack" /\ pc = "lifecycle"
    /\ Declare("role", {})

EcrBuildRole ==
    /\ cls = "ECRStack" /\ pc = "role"
    /\ Declare("project", {"CodeBuildRole"})

EcrBuildProject ==
    /\ cls = "ECRStack" /\ pc = "project"
    /\ DeclareWith("credentials", {"DrupalImageBuild"}, "EcrBuildProject")

EcrGitHubCredentials ==
    /\ cls = "ECRStack" /\ pc = "credentials"
    /\ DeclareWith("weekly", {"GitHubCredentials"}, "EcrGitHubCredentials")

EcrWeeklyBuildRule ==
    /\ cls = "ECRStack" /\ pc = "weekly"
    /\ Declare("outputs", {"WeeklyBuildRule"})

EcrOutputs ==
    /\ cls = "ECRStack" /\ pc = "outputs"
    /\ Declare("done", {"RepositoryUri", "BuildProjectName"})


-----------------------------------------------------------------------------
(* DrupalServiceStack.__init__ *)

\* a variant that checks the database before the vpc
ValidationErrorDatabaseFirst(vpc, database, repository) ==
    IF Falsy(database) THEN "ValueError: Database cluster must be provided"
    ELSE IF Falsy(vpc) THEN "ValueError: VPC must be provided"
    ELSE IF Falsy(repository) THEN "ValueError: ECR repository must be provided"
    ELSE IF ~TruthyStr(repository.repository_name)
           THEN "ValueError: ECR repository name is not valid"
    ELSE "none"

\* _validate_parameters: the first failing check, or "none"
ValidationError(vpc, database, repository) ==
    IF Falsy(vpc) THEN "ValueError: VPC must be provided"
    ELSE IF Falsy(database) THEN "ValueError: Database cluster must be provided"
    ELSE IF Falsy(repository) THEN "ValueError: ECR repository must be provided"
    ELSE IF ~TruthyStr(repository.repository_name)
           THEN "ValueError: ECR repository name is not valid"
    ELSE "none"

ValidateParameters ==
    /\ cls = "DrupalServiceStack" /\ pc = "validate"
    /\ LET e == ValidationError(args.vpc, args.database, args.repository)
       IN  IF e # "none" THEN Raise(e) ELSE Declare("cluster", {})

CreateEcsCluster ==
    /\ cls = "DrupalServiceStack" /\ pc = "cluster"
    /\ IF Falsy(args.vpc)
         THEN Raise(TypeErr)
         ELSE DeclareWith("efs", {"DrupalCluster"}, "CreateEcsCluster")

CreateEfs ==
    /\ cls = "DrupalServiceStack" /\ pc = "efs"
    /\ IF Falsy(args.vpc)
         THEN Raise(TypeErr)
         ELSE DeclareWith("redis", {"EFSSecurityGroup", "DrupalFiles"}, "CreateEfs")

CreateRedisCluster ==
    /\ cls = "DrupalServiceStack" /\ pc = "redis"
    /\ IF Falsy(args.vpc)
         THEN Raise(TypeErr)
         ELSE DeclareWith("task_definition",
                          {"RedisSecurityGroup", "RedisCacheSubnetGroup",
                           "DrupalRedis"}, "CreateRedisCluster")

\* _create_task_definition, with _add_task_permissions: the task definition
\* exists when repository.grant_pull is reached
CreateTaskDefinition ==
    /\ cls = "DrupalServiceStack" /\ pc = "task_definition"
    /\ IF Falsy(args.repository)
         THEN RaiseAfter(AttrErr, {"DrupalTaskDef"})
         ELSE DeclareWith("efs_volume", {"DrupalTaskDef"}, "CreateTaskDefinition")

ConfigureEfsVolume ==
    /\ cls = "DrupalServiceStack" /\ pc = "efs_volume"
    /\ Declare("container", {})

\* _create_container_definition: the log group exists when the arguments of
\* add_container (image from the repository, DB_HOST from the database) are read
CreateContainerDefinition ==
    /\ cls = "DrupalServiceStack" /\ pc = "container"
    /\ IF Falsy(args.repository)
         THEN RaiseAfter(TypeErr, {"DrupalContainerLogs"})
         ELSE IF Falsy(args.database)
           THEN RaiseAfter(AttrErr, {"DrupalContainerLogs"})
           ELSE DeclareWith("service", {"DrupalContainerLogs", "drupal"},
                            "CreateContainerDefinition")

\* a variant that tests `certificate_arn is not None` instead of truthiness
ProtocolIfNotNone(certificate_arn) ==
    IF certificate_arn # NoneStr THEN "HTTPS" ELSE "HTTP"

\* protocol=HTTPS if certificate_arn else HTTP
Protocol(certificate_arn) ==
    IF TruthyStr(certificate_arn) THEN "HTTPS" ELSE "HTTP"

\* certificate=Certificate.from_certificate_arn(...) if certificate_arn else None
Certificate(certificate_arn) ==
    IF TruthyStr(certificate_arn) THEN certificate_arn ELSE NoneStr

\* _create_fargate_service, with _configure_dns when domain_name is given
CreateFargateService ==
    /\ cls = "DrupalServiceStack" /\ pc = "service"
    /\ pc' = "security_groups"
    /\ declared' = declared \cup {"DrupalService"}
          \cup (IF TruthyStr(args.certificate_arn) THEN {"Certificate"} ELSE {})
          \cup (IF TruthyStr(args.domain_name)
                  THEN {"Zone", "DrupalAliasRecord"} ELSE {})
    /\ props' = [props EXCEPT
          !.desired_count = DesiredCount,
          !.protocol = Protocol(args.certificate_arn),
          !.certificate = Certificate(args.certificate_arn),
          !.dns = IF TruthyStr(args.domain_name) THEN args.domain_name ELSE NoneStr]
    /\ UNCHANGED <<site, cls, args, err, ctxVars, deployVars, ecrVars>>

ConfigureSecurityGroups ==
    /\ cls = "DrupalServiceStack" /\ pc = "security_groups"
    /\ Declare("auto_scaling", {"TaskSecurityGroup"})

\* a variant with the two capacities exchanged
ConfigureAutoScalingSwapped ==
    /\ cls = "DrupalServiceStack" /\ pc = "auto_scaling"
    /\ pc' = "monitoring"
    /\ declared' = declared \cup {"CpuScaling", "MemoryScaling"}
    /\ props' = [props EXCEPT !.min_capacity = MaxCapacity,
                              !.max_capacity = MinCapacity]
    /\ UNCHANGED <<site, cls, args, err, ctxVars, deployVars, ecrVars>>

ConfigureAutoScaling ==
    /\ cls = "DrupalServiceStack" /\ pc = "auto_scaling"
    /\ pc' = "monitoring"
    /\ declared' = declared \cup {"CpuScaling", "MemoryScaling"}
    /\ props' = [props EXCEPT !.min_capacity = MinCapacity,
                              !.max_capacity = MaxCapacity]
    /\ UNCHANGED <<site, cls, args, err, ctxVars, deployVars, ecrVars>>

\* cloudwatch.Alarm without comparison_operator
DefaultComparisonOperator == "GreaterThanOrEqualToThreshold"

\* the four alarms of _configure_monitoring
ServiceAlarms ==
    { [id |-> "DrupalServiceHighCPU", metric |-> "CPUUtilization",
       threshold |-> 90, evaluation_periods |-> 2,
       comparison_operator |-> DefaultComparisonOperator],
      [id |-> "DrupalService5XX", metric |-> "HTTPCode_Target_5XX_Count",
       threshold |-> 10, evaluation_periods |-> 2,
       comparison_operator |-> "GreaterThanThreshold"],
      [id |-> "DrupalServiceHighLatency", metric |-> "TargetResponseTime.p95",
       threshold |-> 5, evaluation_periods |-> 3,
       comparison_operator |-> "GreaterThanThreshold"],
      [id |-> "DrupalServiceHealthCheckFailures", metric |-> "UnHealthyHostCount",
       threshold |-> 1, evaluation_periods |-> 2,
       comparison_operator |-> "GreaterThanThreshold"] }

\* a datapoint v of the alarm's metric breaches the alarm's threshold; the
\* alarm fires when evaluation_periods consecutive datapoints breach it
Breaches(alarm, v) ==
    IF alarm.comparison_operator = "GreaterThanThreshold"
      THEN v > alarm.threshold
      ELSE v >= alarm.threshold

ConfigureMonitoring ==
    /\ cls = "DrupalServiceStack" /\ pc = "monitoring"
    /\ pc' = "outputs"
    /\ declared' = declared \cup { a.id : a \in ServiceAlarms }
    /\ props' = [props EXCEPT !.alarms = ServiceAlarms]
    /\ UNCHANGED <<site, cls, args, err, ctxVars, deployVars, ecrVars>>

CreateOutputs ==
    /\ cls = "DrupalServiceStack" /\ pc = "outputs"
    /\ DeclareWith("done", {"ServiceEndpoint", "RedisEndpoint", "ECRRepositoryURI",
                        "TaskDefinitionArn", "EFSFileSystemId", "LoadBalancerDNS"},
                   "CreateOutputs")

-----------------------------------------------------------------------------
(* Assembly: one constructor call, from its first statement *)

AsmIdle ==
    /\ site = "none" /\ cls = "none" /\ args = NoArgs /\ pc = "idle"
    /\ declared = {} /\ err = "none" /\ props = NoProps
    /\ secretStore = [n \in SecretNames |-> "hunter2"] /\ env = NoEnv
    /\ registry = {} /\ caller = NoFrame

DeployIdle ==
    /\ appStatus = <<>> /\ run = 0 /\ pipe = "none"
    /\ stageState = <<>> /\ stepStatus = <<>> /\ stackStatus = <<>>
    /\ stepEnv = <<>>

EcrIdle ==
    /\ images = <<>> /\ pushes = 0 /\ applied = FALSE /\ evicted = {}

InitAsm ==
    /\ \E c \in Calls :
          /\ site = c.site /\ cls = c.cls /\ args = c.args
          /\ pc = FirstPc(c.cls)
    /\ declared = {} /\ err = "none" /\ props = NoProps
    /\ secretStore \in Stores /\ env = NoEnv
    /\ registry = {} /\ caller = NoFrame
    /\ DeployIdle /\ EcrIdle

NextAsm ==
    \/ NetworkVpc \/ NetworkTags
    \/ DatabaseSecurityGroup \/ DatabaseSecret \/ DatabaseCluster
    \/ BackupVault \/ BackupPlan \/ BackupAddRule \/ BackupAddSelection
    \/ EcrRepository \/ EcrLifecycleRule \/ EcrBuildRole \/ EcrBuildProject
    \/ EcrGitHubCredentials \/ EcrWeeklyBuildRule \/ EcrOutputs
    \/ ValidateParameters \/ CreateEcsCluster \/ CreateEfs
    \/ CreateRedisCluster \/ CreateTaskDefinition \/ ConfigureEfsVolume
    \/ CreateContainerDefinition \/ CreateFargateService
    \/ ConfigureSecurityGroups \/ ConfigureAutoScaling
    \/ ConfigureMonitoring \/ CreateOutputs

SpecAsm == InitAsm /\ [][NextAsm]_vars

-----------------------------------------------------------------------------
(* PipelineStack.__init__ *)

PipelineRole ==
    /\ cls = "PipelineStack" /\ pc = "pipeline_role"
    /\ Declare("pipeline", {"CodeBuildRole"})

PipelineCodePipeline ==
    /\ cls = "PipelineStack" /\ pc = "pipeline"
    /\ DeclareWith("dev_stage", {"DrupalPipeline"}, "PipelineCodePipeline")

\* DrupalStage.__init__: the order in which a stage constructs its stacks
StageProgram == <<"ECRStack", "NetworkStack", "DatabaseStack", "DrupalServiceStack">>

\* the call of class c made at the call site s
CallOf(s, c) == CHOOSE k \in ProgramCalls : k.site = s /\ k.cls = c

\* DrupalStage(self, stage, env=kwargs.get("env")): the constructor is
\* suspended at `resume` while the stage constructs its stacks
InstantiateStage(stage, resume) ==
    /\ caller' = [site |-> site, cls |-> cls, args |-> args, pc |-> resume,
                  declared |-> declared, props |-> props]
    /\ LET k == CallOf(stage, StageProgram[1])
       IN  /\ site' = k.site /\ cls' = k.cls /\ args' = k.args
           /\ pc' = FirstPc(k.cls)
    /\ declared' = {} /\ props' = NoProps
    /\ UNCHANGED <<err, secretStore, env, registry, deployVars, ecrVars>>

PipelineDevStage ==
    /\ cls = "PipelineStack" /\ pc = "dev_stage"
    /\ InstantiateStage("Dev", "add_dev")

PipelineAddDevStage ==
    /\ cls = "PipelineStack" /\ pc = "add_dev"
    /\ DeclareWith("prod_stage", {}, "PipelineAddDevStage")

PipelineProdStage ==
    /\ cls = "PipelineStack" /\ pc = "prod_stage"
    /\ InstantiateStage("Prod", "add_prod")

PipelineAddProdStage ==
    /\ cls = "PipelineStack" /\ pc = "add_prod"
    /\ Declare("pipeline_output", {})

PipelineOutput ==
    /\ cls = "PipelineStack" /\ pc = "pipeline_output"
    /\ Declare("done", {"PipelineConsoleUrl"})

-----------------------------------------------------------------------------
(* app.py: the stacks constructed one after the other in one environment *)

\* the order of the constructor calls of app.py
AppProgram == <<"NetworkStack", "DatabaseStack", "ECRStack",
                "DrupalServiceStack", "BackupStack", "PipelineStack">>

\* the program the call site s runs
ProgramOf(s) == IF s = "app.py" THEN AppProgram ELSE StageProgram

\* the position of class c in the program q
IndexIn(q, c) == CHOOSE i \in 1..Len(q) : q[i] = c

\* the physical name a construct is given, "" when the provider generates it
PhysicalName(construct) ==
    CASE construct = "DrupalRepository" -> "drupal-repository"
      [] construct = "DrupalBackupVault" -> "drupal-backup-vault"
      [] construct = "DrupalPipeline" -> "DrupalPipeline"
      [] OTHER -> ""

\* the stack under construction, as the app holds it once constructed:
\* every stack of app.py and of its stages is given the same env
Constructed ==
    [site |-> site, cls |-> cls, account |-> env.account, region |-> env.region,
     declared |-> declared,
     names |-> {PhysicalName(c) : c \in declared} \ {""}]

\* the constructor returned and the program calls the next one
NextStack ==
    /\ pc = "done" /\ site \in {"app.py", "Dev", "Prod"}
    /\ IndexIn(ProgramOf(site), cls) < Len(ProgramOf(site))
    /\ registry' = registry \cup {Constructed}
    /\ LET k == CallOf(site, ProgramOf(site)[IndexIn(ProgramOf(site), cls) + 1])
       IN  /\ site' = k.site /\ cls' = k.cls /\ args' = k.args
           /\ pc' = FirstPc(k.cls)
    /\ declared' = {} /\ props' = NoProps
    /\ UNCHANGED <<err, secretStore, env, caller, deployVars, ecrVars>>

\* the last stack of a stage returned: DrupalStage.__init__ returns and the
\* suspended constructor resumes
StageReturn ==
    /\ pc = "done" /\ site \in {"Dev", "Prod"}
    /\ IndexIn(StageProgram, cls) = Len(StageProgram)
    /\ caller # NoFrame
    /\ registry' = registry \cup {Constructed}
    /\ site' = caller.site /\ cls' = caller.cls /\ args' = caller.args
    /\ pc' = caller.pc /\ declared' = caller.declared /\ props' = caller.props
    /\ caller' = NoFrame
    /\ UNCHANGED <<err, secretStore, env, deployVars, ecrVars>>

\* the last constructor returned: add_dependency, tags and app.synth()
AppSynth ==
    /\ pc = "done" /\ site = "app.py"
    /\ IndexIn(AppProgram, cls) = Len(AppProgram)
    /\ registry' = registry \cup {Constructed}
    /\ pc' = "synthesized"
    /\ UNCHANGED <<site, cls, args, declared, err, props, secretStore, env,
                   caller, deployVars, ecrVars>>

InitApp ==
    /\ LET k == CallOf("app.py", AppProgram[1])
       IN  /\ site = k.site /\ cls = k.cls /\ args = k.args
           /\ pc = FirstPc(k.cls)
    /\ declared = {} /\ err = "none" /\ props = NoProps
    /\ secretStore \in Stores /\ env \in Envs
    /\ registry = {} /\ caller = NoFrame
    /\ DeployIdle /\ EcrIdle

NextApp ==
    \/ NetworkVpc \/ NetworkTags
    \/ DatabaseSecurityGroup \/ DatabaseSecret \/ DatabaseCluster
    \/ BackupVault \/ BackupPlan \/ BackupAddRule \/ BackupAddSelection
    \/ EcrRepository \/ EcrLifecycleRule \/ EcrBuildRole \/ EcrBuildProject
    \/ EcrGitHubCredentials \/ EcrWeeklyBuildRule \/ EcrOutputs
    \/ ValidateParameters \/ CreateEcsCluster \/ CreateEfs
    \/ CreateRedisCluster \/ CreateTaskDefinition \/ ConfigureEfsVolume
    \/ CreateContainerDefinition \/ CreateFargateService
    \/ ConfigureSecurityGroups \/ ConfigureAutoScaling
    \/ ConfigureMonitoring \/ CreateOutputs
    \/ PipelineRole \/ PipelineCodePipeline \/ PipelineDevStage
    \/ PipelineAddDevStage \/ PipelineProdStage \/ PipelineAddProdStage
    \/ PipelineOutput
    \/ NextStack \/ StageReturn \/ AppSynth

SpecApp == InitApp /\ [][NextApp]_vars


-----------------------------------------------------------------------------
(* The stack graphs declared by app.py and by DrupalStage *)

AppStacks == {"Network", "Database", "ECR", "Service", "Backup", "Pipeline"}
StageStacks == {"ECR", "Network", "Database", "Service"}

\* x.add_dependency(y) in app.py, as <<x, y>>
AppAddDependency ==
    { <<"Database", "Network">>, <<"Service", "Database">>,
      <<"Service", "ECR">>, <<"Backup", "Service">>, <<"Pipeline", "Service">> }

\* a handle of stack y passed to the constructor of stack x in app.py, as
\* <<x, y>>: the consumer's template references the producer's resource, and a
\* reference between two stacks orders them
AppHandles ==
    { <<"Database", "Network">>,
      <<"Service", "Network">>, <<"Service", "Database">>, <<"Service", "ECR">>,
      <<"Backup", "Database">>, <<"Backup", "Service">> }

\* the same inside DrupalStage, which calls add_dependency nowhere
StageHandles ==
    { <<"Database", "Network">>,
      <<"Service", "Network">>, <<"Service", "Database">>, <<"Service", "ECR">> }

\* a variant in which the service stack no longer takes the ECR stack's
\* repository nor names the ECR stack as a dependency
AppDepsWithoutEcr ==
    (AppAddDependency \cup AppHandles) \ {<<"Service", "ECR">>}

\* a variant in which the backup stack is wired to nothing it selects
AppDepsBackupUnordered ==
    { d \in AppAddDependency \cup AppHandles : d[1] # "Backup" }

\* a variant in which the pipeline stack waits for no other stack
AppDepsPipelineUnordered ==
    { d \in AppAddDependency \cup AppHandles : d[1] # "Pipeline" }

AppDeps == AppAddDependency \cup AppHandles

StageDeps == StageHandles

DepsOf(deps, s) == { d[2] : d \in { e \in deps : e[1] = s } }

RECURSIVE Closure(_)
Closure(R) ==
    LET R2 == R \cup { <<p[1][1], p[2][2]>> :
                         p \in { q \in R \X R : q[1][2] = q[2][1] } }
    IN  IF R2 = R THEN R ELSE Closure(R2)

Acyclic(R) == \A d \in Closure(R) : d[1] # d[2]

\* the resources the backup selection of app.py's BackupStack names, with the
\* stack that declares each: database=db_stack.cluster,
\* file_system=service_stack.file_system
AppBackupSelection ==
    LET call == CHOOSE c \in AppCalls : c.cls = "BackupStack"
        res == BackupResources(call.args.database, call.args.file_system)
        Owner(r) == IF r.arn_of = ClusterHandle.construct THEN "Database"
                    ELSE IF r.arn_of = FileSystemHandle.construct THEN "Service"
                    ELSE "unknown"
    IN  [i \in DOMAIN res |-> [arn_of |-> res[i].arn_of, stack |-> Owner(res[i])]]

-----------------------------------------------------------------------------
(* The pipeline declared by PipelineStack *)

\* pipeline.add_stage(dev_stage, ...) then pipeline.add_stage(prod_stage, ...)
StageOrder == <<"Dev", "Prod">>
Stages == { StageOrder[i] : i \in DOMAIN StageOrder }

\* a variant with the approval step left out of the Prod stage
PreWithoutApproval(st) ==
    IF st = "Dev" THEN <<"UnitTest", "BuildAndPushImage">> ELSE <<>>

\* pre=[...] of each add_stage
Pre(st) ==
    IF st = "Dev" THEN <<"UnitTest", "BuildAndPushImage">>
    ELSE <<"PromoteToProd">>

\* post=[...] of each add_stage
Post(st) ==
    IF st = "Dev" THEN <<"IntegrationTest">> ELSE <<"TestProdService">>

\* pipelines.ManualApprovalStep or pipelines.ShellStep
StepKind(s) ==
    IF s = "PromoteToProd" THEN "ManualApprovalStep" ELSE "ShellStep"

Range(q) == { q[i] : i \in DOMAIN q }

PreSteps(st) == Range(Pre(st))
PostSteps(st) == Range(Post(st))

\* synth=pipelines.ShellStep("Synth", ...), and the steps of the stages
AllSteps == {"Synth"} \cup UNION { PreSteps(st) \cup PostSteps(st) : st \in Stages }
ShellSteps == { s \in AllSteps : StepKind(s) = "ShellStep" }
ApprovalSteps == { s \in AllSteps : StepKind(s) = "ManualApprovalStep" }

StageIndex(st) == CHOOSE i \in DOMAIN StageOrder : StageOrder[i] = st

\* a variant with the two stages in one wave: neither waits for the other
PrevCompleteInWave(st) == stepStatus["Synth"] = "succeeded"

\* what a stage waits for: the synth step for the first stage, the
\* completion of the stage added before it for every other
PrevComplete(st) ==
    IF StageIndex(st) = 1
      THEN stepStatus["Synth"] = "succeeded"
      ELSE stageState[StageOrder[StageIndex(st) - 1]] = "complete"

\* a variant in which both verification steps read the Dev stage's endpoint
EnvFromCfnOutputsOfDev(s) ==
    [stage |-> "Dev", stack |-> "Service", output |-> "ServiceEndpoint"]

\* env_from_cfn_outputs={"SERVICE_URL": <stage>.service_endpoint} of a post
\* step, where DrupalStage.service_endpoint is the ServiceEndpoint output of
\* the stage's service stack
EnvFromCfnOutputs(s) ==
    [stage |-> IF s = "IntegrationTest" THEN "Dev" ELSE "Prod",
     stack |-> "Service", output |-> "ServiceEndpoint"]

\* no SERVICE_URL
NoUrl == [endpoint_of |-> "none", resolved |-> FALSE]

\* the value of a stack output when a step starts: the output has a value
\* once its stack has been deployed in this execution
ResolveOutput(o) ==
    [endpoint_of |-> o.stage,
     resolved |-> stackStatus[o.stage][o.stack] = "complete"]

\* a variant in which a phase ends when its steps have ended, however
AllSucceededOrFailed(steps) ==
    \A s \in steps : stepStatus[s] \in {"succeeded", "failed"}

\* a phase of a stage is passed when every step of it has succeeded
AllSucceeded(steps) == \A s \in steps : stepStatus[s] = "succeeded"

-----------------------------------------------------------------------------
(* The images of the repository drupal-repository *)

\* add_lifecycle_rule(max_image_count=5, ...)
MaxImageCount == 5
\* add_lifecycle_rule(tag_status=TAGGED, tag_prefix_list=["v"])
TagPrefixList == << <<"v">> >>

\* a tag is a sequence of characters followed by a stamp standing for the
\* part computed when the image is built (date, time, commit)
LatestTag == [name |-> <<"l", "a", "t", "e", "s", "t">>, stamp |-> 0]
\* IMAGE_TAG=v$(date +%Y%m%d-%H%M%S)-$(git rev-parse --short HEAD)
ImageTag(n) == [name |-> <<"v">>, stamp |-> n]

StartsWith(tag, prefix) ==
    /\ Len(tag.name) >= Len(prefix)
    /\ \A i \in 1..Len(prefix) : tag.name[i] = prefix[i]

\* the images a TAGGED rule with a prefix list selects: tagged images that
\* carry, for every listed prefix, a tag starting with it
RuleSelects(img) ==
    /\ img.tags # {}
    /\ \A i \in DOMAIN TagPrefixList :
          \E t \in img.tags : StartsWith(t, TagPrefixList[i])

\* pushing tags to a repository with MUTABLE tags: the tags move to the new
\* image, which is appended as the newest
Pushed(imgs, tags, n) ==
    Append([i \in DOMAIN imgs |-> [imgs[i] EXCEPT !.tags = @ \ tags]],
           [pushed |-> n, tags |-> tags])

-----------------------------------------------------------------------------
(* Provisioning of the stacks of app.py: the deployment engine starts a     *)
(* stack once every stack it depends on is complete; whether a stack's      *)
(* creation succeeds is the provider's answer                               *)

ProvisionStart(s) ==
    /\ appStatus[s] = "pending"
    /\ \A d \in DepsOf(AppDeps, s) : appStatus[d] = "complete"
    /\ appStatus' = [appStatus EXCEPT ![s] = "creating"]
    /\ UNCHANGED <<run, pipe, stageState, stepStatus, stackStatus, stepEnv, asmVars, ecrVars>>

ProvisionFinish(s) ==
    /\ appStatus[s] = "creating"
    /\ appStatus' = [appStatus EXCEPT ![s] = "complete"]
    /\ UNCHANGED <<run, pipe, stageState, stepStatus, stackStatus, stepEnv, asmVars, ecrVars>>

ProvisionFail(s) ==
    /\ appStatus[s] = "creating"
    /\ appStatus' = [appStatus EXCEPT ![s] = "failed"]
    /\ UNCHANGED <<run, pipe, stageState, stepStatus, stackStatus, stepEnv, asmVars, ecrVars>>

\* the DrupalImageBuild project of the ECR stack runs, started by a push to
\* main under docker/ or by the weekly rule, and pushes latest; nothing
\* starts it when the stack is created
BuildJobRun ==
    /\ appStatus["ECR"] = "complete"
    /\ pushes < MaxBuilds
    /\ pushes' = pushes + 1
    /\ images' = Pushed(images, {LatestTag}, pushes + 1)
    /\ UNCHANGED <<applied, evicted, asmVars, deployVars>>

-----------------------------------------------------------------------------
(* One execution of the pipeline.  The steps of one pre or post list have   *)
(* no order among themselves: they start together when their phase starts.  *)

NothingRunning ==
    /\ \A s \in AllSteps : stepStatus[s] # "running"
    /\ \A st \in Stages : \A k \in StageStacks : stackStatus[st][k] # "creating"

\* an execution is started by a source change or by hand, once the pipeline
\* stack exists and the previous execution has ended
StartExecution ==
    /\ appStatus["Pipeline"] = "complete"
    /\ pipe \in {"none", "succeeded", "failed"}
    /\ NothingRunning
    /\ run < MaxRuns
    /\ run' = run + 1
    /\ pipe' = "Build"
    /\ stepStatus' = [s \in AllSteps |-> IF s = "Synth" THEN "running" ELSE "pending"]
    /\ stageState' = [st \in Stages |-> "pending"]
    /\ stackStatus' = [st \in Stages |-> [k \in StageStacks |-> "pending"]]
    /\ stepEnv' = [s \in AllSteps |-> NoUrl]
    /\ UNCHANGED <<appStatus, asmVars, ecrVars>>

\* the repository drupal-repository exists in the account: a stack that
\* declares it has been provisioned
RepositoryCreated ==
    \/ appStatus["ECR"] = "complete"
    \/ \E st \in Stages : stackStatus[st]["ECR"] = "complete"

\* a shell step exits zero; BuildAndPushImage has then pushed its image to
\* drupal-repository under $IMAGE_TAG and latest, which needs the repository
StepSucceed(s) ==
    /\ s \in ShellSteps
    /\ stepStatus[s] = "running"
    /\ s = "BuildAndPushImage" => RepositoryCreated
    /\ stepStatus' = [stepStatus EXCEPT ![s] = "succeeded"]
    /\ IF s = "BuildAndPushImage"
         THEN /\ pushes' = pushes + 1
              /\ images' = Pushed(images, {ImageTag(pushes + 1), LatestTag},
                                  pushes + 1)
              /\ UNCHANGED <<applied, evicted>>
         ELSE UNCHANGED ecrVars
    /\ UNCHANGED <<appStatus, run, pipe, stageState, stackStatus, stepEnv, asmVars>>

\* a shell step exits non-zero; a failed synth step ends the execution
StepFail(s) ==
    /\ s \in ShellSteps
    /\ stepStatus[s] = "running"
    /\ stepStatus' = [stepStatus EXCEPT ![s] = "failed"]
    /\ pipe' = IF s = "Synth" THEN "failed" ELSE pipe
    /\ UNCHANGED <<appStatus, run, stageState, stackStatus, stepEnv, asmVars, ecrVars>>

\* the external approval of a manual-approval step is granted
Approve(s) ==
    /\ s \in ApprovalSteps
    /\ stepStatus[s] = "running"
    /\ stepStatus' = [stepStatus EXCEPT ![s] = "succeeded"]
    /\ UNCHANGED <<appStatus, run, pipe, stageState, stackStatus, stepEnv, asmVars, ecrVars>>

\* the external approval is refused
Reject(s) ==
    /\ s \in ApprovalSteps
    /\ stepStatus[s] = "running"
    /\ stepStatus' = [stepStatus EXCEPT ![s] = "failed"]
    /\ UNCHANGED <<appStatus, run, pipe, stageState, stackStatus, stepEnv, asmVars, ecrVars>>

\* pending -> pre-steps
EnterStage(st) ==
    /\ pipe \in {"Build"} \cup Stages
    /\ stageState[st] = "pending"
    /\ PrevComplete(st)
    /\ pipe' = st
    /\ stageState' = [stageState EXCEPT ![st] = "pre-steps"]
    /\ stepStatus' = [s \in AllSteps |->
                        IF s \in PreSteps(st) THEN "running" ELSE stepStatus[s]]
    /\ UNCHANGED <<appStatus, run, stackStatus, stepEnv, asmVars, ecrVars>>

\* pre-steps -> deploying
BeginDeploy(st) ==
    /\ stageState[st] = "pre-steps"
    /\ AllSucceeded(PreSteps(st))
    /\ stageState' = [stageState EXCEPT ![st] = "deploying"]
    /\ UNCHANGED <<appStatus, run, pipe, stepStatus, stackStatus, stepEnv, asmVars, ecrVars>>

StackDeployStart(st, k) ==
    /\ stageState[st] = "deploying"
    /\ stackStatus[st][k] = "pending"
    /\ \A j \in StageStacks : stackStatus[st][j] # "failed"
    /\ \A d \in DepsOf(StageDeps, k) : stackStatus[st][d] = "complete"
    /\ stackStatus' = [stackStatus EXCEPT ![st][k] = "creating"]
    /\ UNCHANGED <<appStatus, run, pipe, stageState, stepStatus, stepEnv, asmVars, ecrVars>>

\* whether a stack's deployment succeeds is the provider's answer (a name
\* already taken in the account, a quota, ...): either outcome is possible
StackDeployFinish(st, k) ==
    /\ stackStatus[st][k] = "creating"
    /\ stackStatus' = [stackStatus EXCEPT ![st][k] = "complete"]
    /\ UNCHANGED <<appStatus, run, pipe, stageState, stepStatus, stepEnv, asmVars, ecrVars>>

StackDeployFail(st, k) ==
    /\ stackStatus[st][k] = "creating"
    /\ stackStatus' = [stackStatus EXCEPT ![st][k] = "failed"]
    /\ UNCHANGED <<appStatus, run, pipe, stageState, stepStatus, stepEnv, asmVars, ecrVars>>

\* deploying -> post-steps
BeginPost(st) ==
    /\ stageState[st] = "deploying"
    /\ \A k \in StageStacks : stackStatus[st][k] = "complete"
    /\ stageState' = [stageState EXCEPT ![st] = "post-steps"]
    /\ stepStatus' = [s \in AllSteps |->
                        IF s \in PostSteps(st) THEN "running" ELSE stepStatus[s]]
    /\ stepEnv' = [s \in AllSteps |->
                     IF s \in PostSteps(st)
                       THEN ResolveOutput(EnvFromCfnOutputs(s)) ELSE stepEnv[s]]
    /\ UNCHANGED <<appStatus, run, pipe, stackStatus, asmVars, ecrVars>>

\* post-steps -> complete; the execution succeeds with its last stage
CompleteStage(st) ==
    /\ stageState[st] = "post-steps"
    /\ AllSucceeded(PostSteps(st))
    /\ stageState' = [stageState EXCEPT ![st] = "complete"]
    /\ pipe' = IF StageIndex(st) = Len(StageOrder) THEN "succeeded" ELSE pipe
    /\ UNCHANGED <<appStatus, run, stepStatus, stackStatus, stepEnv, asmVars, ecrVars>>

\* a step or a stack deployment of the stage has failed and what ran beside
\* it has ended: the stage and the execution are failed
FailStage(st) ==
    /\ stageState[st] \in {"pre-steps", "deploying", "post-steps"}
    /\ \/ \E s \in PreSteps(st) \cup PostSteps(st) : stepStatus[s] = "failed"
       \/ \E k \in StageStacks : stackStatus[st][k] = "failed"
    /\ NothingRunning
    /\ stageState' = [stageState EXCEPT ![st] = "failed"]
    /\ pipe' = "failed"
    /\ UNCHANGED <<appStatus, run, stepStatus, stackStatus, stepEnv, asmVars, ecrVars>>

InitDeploy ==
    /\ appStatus = [s \in AppStacks |-> "pending"]
    /\ run = 0
    /\ pipe = "none"
    /\ stageState = [st \in Stages |-> "pending"]
    /\ stepStatus = [s \in AllSteps |-> "pending"]
    /\ stackStatus = [st \in Stages |-> [k \in StageStacks |-> "pending"]]
    /\ stepEnv = [s \in AllSteps |-> NoUrl]
    /\ AsmIdle /\ EcrIdle

NextDeploy ==
    \/ \E s \in AppStacks : ProvisionStart(s)
    \/ \E s \in AppStacks : ProvisionFinish(s)
    \/ \E s \in AppStacks : ProvisionFail(s)
    \/ BuildJobRun
    \/ StartExecution
    \/ \E s \in AllSteps : StepSucceed(s)
    \/ \E s \in AllSteps : StepFail(s)
    \/ \E s \in AllSteps : Approve(s)
    \/ \E s \in AllSteps : Reject(s)
    \/ \E st \in Stages : EnterStage(st)
    \/ \E st \in Stages : BeginDeploy(st)
    \/ \E st \in Stages, k \in StageStacks : StackDeployStart(st, k)
    \/ \E st \in Stages, k \in StageStacks : StackDeployFinish(st, k)
    \/ \E st \in Stages, k \in StageStacks : StackDeployFail(st, k)
    \/ \E st \in Stages : BeginPost(st)
    \/ \E st \in Stages : CompleteStage(st)
    \/ \E st \in Stages : FailStage(st)

SpecDeploy == InitDeploy /\ [][NextDeploy]_vars

-----------------------------------------------------------------------------
(* The image repository: pushes and the lifecycle rule of ECRStack *)

\* the DrupalImageBuild project (webhook push or weekly rule):
\* docker push $ECR_REPO_URI:latest
BuildJobPush ==
    /\ pushes < MaxPushes
    /\ pushes' = pushes + 1
    /\ images' = Pushed(images, {LatestTag}, pushes + 1)
    /\ applied' = FALSE
    /\ evicted' = {}
    /\ UNCHANGED <<asmVars, deployVars>>

\* the pipeline's BuildAndPushImage step: docker push $REPOSITORY_URI:$IMAGE_TAG
\* and docker push $REPOSITORY_URI:latest, the same image
PipelinePush ==
    /\ pushes < MaxPushes
    /\ pushes' = pushes + 1
    /\ images' = Pushed(images, {ImageTag(pushes + 1), LatestTag}, pushes + 1)
    /\ applied' = FALSE
    /\ evicted' = {}
    /\ UNCHANGED <<asmVars, deployVars>>

\* the repository applies the rule: of the images it selects, those beyond
\* the max_image_count newest expire, oldest first
ApplyLifecycleRule ==
    /\ ~applied
    /\ images # <<>>
    /\ LET selected == SelectSeq(images, RuleSelects)
           excess == IF Len(selected) > MaxImageCount
                       THEN Len(selected) - MaxImageCount ELSE 0
           expired == { selected[i].pushed : i \in 1..excess }
           Kept(img) == img.pushed \notin expired
       IN  /\ images' = SelectSeq(images, Kept)
           /\ evicted' = expired
    /\ applied' = TRUE
    /\ UNCHANGED <<pushes, asmVars, deployVars>>

InitEcr ==
    /\ images = <<>> /\ pushes = 0 /\ applied = FALSE /\ evicted = {}
    /\ AsmIdle /\ DeployIdle

NextEcr == BuildJobPush \/ PipelinePush \/ ApplyLifecycleRule

SpecEcr == InitEcr /\ [][NextEcr]_vars

-----------------------------------------------------------------------------
(* Claims about assembly (checked under SpecAsm) *)

\* the upstream handles each constructor takes
RequiredHandles(c) ==
    CASE c = "DatabaseStack" -> {"vpc"}
      [] c = "DrupalServiceStack" -> {"vpc", "database", "repository"}
      [] c = "BackupStack" -> {"database", "file_system"}
      [] OTHER -> {}

MissingHandle == \E h \in RequiredHandles(cls) : Falsy(args[h])

\* C1: a constructor called with a required handle missing never completes,
\* and when it raises no resource has been declared in the stack.
C1_MissingHandleFailsBeforeDeclaring ==
    MissingHandle =>
        /\ pc # "done"
        /\ pc = "raised" => declared = {}

AutoScalingConfigured ==
    cls = "DrupalServiceStack" /\ pc \in {"monitoring", "outputs", "done"}

\* C7: once the service and its autoscaling are declared, the autoscaling
\* minimum is at most the desired count, which is at most the maximum.
C7_MinDesiredMax ==
    AutoScalingConfigured =>
        /\ props.min_capacity <= props.desired_count
        /\ props.desired_count <= props.max_capacity

C7_Witness ==
    /\ AutoScalingConfigured /\ pc = "done"
    /\ props.min_capacity = 2 /\ props.desired_count = 2
    /\ props.max_capacity = 6

ServiceDeclared ==
    /\ cls = "DrupalServiceStack"
    /\ pc \in {"security_groups", "auto_scaling", "monitoring", "outputs", "done"}

\* C8: the load balancer is HTTP with no certificate when the certificate ARN
\* is None or empty, HTTPS with that certificate when one is supplied; the
\* service stacks created by app.py and by the Dev and Prod stages are HTTP.
C8_ProtocolFollowsCertificate ==
    ServiceDeclared =>
        /\ args.certificate_arn \in {NoneStr, ""} =>
              /\ props.protocol = "HTTP"
              /\ props.certificate = NoneStr
              /\ "Certificate" \notin declared
        /\ args.certificate_arn \notin {NoneStr, ""} =>
              /\ props.protocol = "HTTPS"
              /\ props.certificate = args.certificate_arn
              /\ "Certificate" \in declared
        /\ site \in {"app.py", "Dev", "Prod"} => props.protocol = "HTTP"

C8_Witness ==
    /\ ServiceDeclared /\ pc = "done"
    /\ args.certificate_arn = "" /\ props.protocol = "HTTP"


-----------------------------------------------------------------------------
(* Claims about provisioning and the pipeline (checked under SpecDeploy) *)

StageSteps(st) == PreSteps(st) \cup PostSteps(st)

StageActive(st) == stageState[st] \in {"pre-steps", "deploying", "post-steps"}

\* some step or stack deployment of the stage has started in this execution
StageStarted(st) ==
    \/ stageState[st] # "pending"
    \/ \E s \in StageSteps(st) : stepStatus[s] # "pending"
    \/ \E k \in StageStacks : stackStatus[st][k] # "pending"

\* C2: nothing of the Prod stage starts before the Dev stage is complete with
\* its post-step verification succeeded, and the two stages are never active
\* at the same time.
C2_StagesSequential ==
    /\ StageStarted("Prod") =>
          /\ stageState["Dev"] = "complete"
          /\ \A s \in PostSteps("Dev") : stepStatus[s] = "succeeded"
    /\ ~(StageActive("Dev") /\ StageActive("Prod"))

C2_Witness ==
    /\ stageState["Prod"] = "pre-steps"
    /\ stageState["Dev"] = "complete"
    /\ stepStatus["IntegrationTest"] = "succeeded"

ApprovalsIn(q) == { i \in DOMAIN q : StepKind(q[i]) = "ManualApprovalStep" }

\* C3: Prod's pre-step list holds exactly one manual-approval step and Dev's
\* none; no Prod stack deployment begins before the approval is granted, Prod
\* stays in pre-steps while the approval is awaited, and Dev awaits none.
C3_ApprovalGate ==
    /\ Cardinality(ApprovalsIn(Pre("Prod"))) = 1
    /\ Cardinality(ApprovalsIn(Pre("Dev"))) = 0
    /\ \A s \in PreSteps("Prod") \cap ApprovalSteps :
          /\ (\E k \in StageStacks : stackStatus["Prod"][k] # "pending")
                => stepStatus[s] = "succeeded"
          /\ stageState["Prod"] \in {"deploying", "post-steps", "complete"}
                => stepStatus[s] = "succeeded"
          /\ stepStatus[s] = "running" => stageState["Prod"] = "pre-steps"
    /\ \A s \in ApprovalSteps : stepStatus[s] = "running" => ~StageActive("Dev")

C3_Witness ==
    /\ \E k \in StageStacks : stackStatus["Prod"][k] = "creating"
    /\ stepStatus["PromoteToProd"] = "succeeded"

\* the stage a step belongs to, "Build" for the synth step
StageOf(s) ==
    IF s = "Synth" THEN "Build"
    ELSE CHOOSE st \in Stages : s \in StageSteps(st)

LaterStages(s) ==
    IF s = "Synth" THEN Stages
    ELSE { st \in Stages : StageIndex(st) > StageIndex(StageOf(s)) }

\* what comes after step s: every stage after its own is untouched, and in
\* its own stage nothing of a later phase has started
NothingLaterRan(s) ==
    /\ \A st \in LaterStages(s) : ~StageStarted(st)
    /\ \A st \in Stages :
          s \in PreSteps(st) =>
              /\ \A k \in StageStacks : stackStatus[st][k] = "pending"
              /\ \A t \in PostSteps(st) : stepStatus[t] = "pending"
              /\ stageState[st] \in {"pre-steps", "failed"}
    /\ \A st \in Stages :
          s \in PostSteps(st) => stageState[st] \in {"post-steps", "failed"}
    /\ pipe \in {StageOf(s), "failed"}

C4_HaltedOnFailure ==
    \A s \in AllSteps : stepStatus[s] = "failed" => NothingLaterRan(s)

C4_NoAutomaticRetry ==
    \A s \in AllSteps :
        (stepStatus[s] = "failed" /\ run' = run) => stepStatus'[s] = "failed"

\* C4: once a step has failed, nothing later in its stage and no later stage
\* runs in that execution, the stage and the pipeline end failed, and the
\* failed step stays failed until a new execution is started.
C4_FailureHalts == []C4_HaltedOnFailure /\ [][C4_NoAutomaticRetry]_vars

C4_Witness ==
    /\ stepStatus["IntegrationTest"] = "failed"
    /\ stageState["Dev"] = "failed"
    /\ pipe = "failed"
    /\ ~StageStarted("Prod")

\* the orders C5 names, as <<later, earlier>>
C5_AppOrder ==
    { <<"Database", "Network">>, <<"Service", "Network">>,
      <<"Service", "Database">>, <<"Service", "ECR">>,
      <<"Backup", "Database">>, <<"Backup", "Service">> }

C5_StageOrder ==
    { <<"Database", "Network">>, <<"Service", "Network">>,
      <<"Service", "Database">>, <<"Service", "ECR">> }

\* C5: the declared stack graphs are acyclic, and a stack is provisioned only
\* after every stack whose handle it consumes is complete, in app.py and in
\* each pipeline stage.
C5_DependencyOrder ==
    /\ Acyclic(AppDeps)
    /\ Acyclic(StageDeps)
    /\ \A o \in C5_AppOrder :
          appStatus[o[1]] # "pending" => appStatus[o[2]] = "complete"
    /\ \A st \in Stages : \A o \in C5_StageOrder :
          stackStatus[st][o[1]] # "pending" => stackStatus[st][o[2]] = "complete"

C5_Witness ==
    /\ appStatus["Backup"] = "complete"
    /\ stackStatus["Prod"]["Service"] = "complete"

\* C6: the backup selection names exactly the database cluster and the
\* filesystem, and the Backup stack is provisioned only after the stacks that
\* declare them (Database, Service) are complete.
C6_BackupAfterProducers ==
    /\ Len(AppBackupSelection) = 2
    /\ Range(AppBackupSelection) =
          { [arn_of |-> "DrupalDB", stack |-> "Database"],
            [arn_of |-> "DrupalFiles", stack |-> "Service"] }
    /\ appStatus["Backup"] # "pending" =>
          \A r \in Range(AppBackupSelection) : appStatus[r.stack] = "complete"

C6_Witness ==
    /\ appStatus["Backup"] = "creating"
    /\ appStatus["Database"] = "complete"
    /\ appStatus["Service"] = "complete"


-----------------------------------------------------------------------------
(* Claims about the image repository (checked under SpecEcr) *)

\* C10: after pushes followed by the lifecycle rule, the repository holds at
\* most max_image_count images, and every evicted image is older than every
\* image retained.
C10_AtMostMaxImagesOldestFirst ==
    applied =>
        /\ Len(images) <= MaxImageCount
        /\ \A e \in evicted : \A i \in DOMAIN images : e < images[i].pushed

\* the order of the states of a stage
StageChain == <<"pending", "pre-steps", "deploying", "post-steps", "complete">>

\* the SERVICE_URL of every post step that has started is the endpoint of
\* the service stack of its own stage, deployed in this execution, and no
\* post step of a stage that has not finished deploying has one
C16_ServiceUrlOfOwnStage ==
    \A st \in Stages : \A s \in PostSteps(st) :
        /\ stepStatus[s] # "pending" =>
              /\ stepEnv[s] = [endpoint_of |-> st, resolved |-> TRUE]
              /\ stackStatus[st]["Service"] = "complete"
        /\ stageState[st] \in {"pending", "pre-steps", "deploying"} =>
              stepEnv[s] = NoUrl

\* within one execution a stage that changes state moves to the next state
\* of the chain, or halts as failed
C16_NextOfChain ==
    \A st \in Stages :
        (run' = run /\ stageState'[st] # stageState[st]) =>
            \/ stageState'[st] = "failed"
            \/ \E i \in 1..(Len(StageChain) - 1) :
                  stageState[st] = StageChain[i] /\ stageState'[st] = StageChain[i + 1]

\* C16: each stage moves only along pending -> pre-steps -> deploying ->
\* post-steps -> complete within an execution, one state at a time and never
\* back (a failure halts it where it is), and the post steps of a stage get
\* as SERVICE_URL the service endpoint of their own stage, which has a value
\* only after the stage's stacks have been deployed
C16_StageChainAndServiceUrl ==
    []C16_ServiceUrlOfOwnStage /\ [][C16_NextOfChain]_vars

\* the Prod stage has reached its post steps and TestProdService runs with
\* the Prod endpoint, after IntegrationTest ran with the Dev endpoint
C16_Witness ==
    /\ stageState["Dev"] = "complete" /\ stageState["Prod"] = "post-steps"
    /\ stepStatus["TestProdService"] = "running"
    /\ stepEnv["TestProdService"] = [endpoint_of |-> "Prod", resolved |-> TRUE]
    /\ stepEnv["IntegrationTest"] = [endpoint_of |-> "Dev", resolved |-> TRUE]

\* an image tagged latest is in the repository
HasLatest == \E i \in DOMAIN images : LatestTag \in images[i].tags

\* C17: while the service stack of app.py is being created, and its tasks
\* are started, an image tagged latest is in the repository
C17_LatestPresentWhenServiceStarts ==
    appStatus["Service"] = "creating" => HasLatest

\* C20: in every execution, the first included, the repository
\* drupal-repository has been created by a stack that declares it when the
\* BuildAndPushImage step runs or has run
C20_RepositoryBeforePush ==
    stepStatus["BuildAndPushImage"] # "pending" => RepositoryCreated

\* BuildAndPushImage runs in the first execution, before any stage has
\* deployed its own ECR stack
C20_Witness ==
    /\ run = 1 /\ stepStatus["BuildAndPushImage"] = "running"
    /\ \A st \in Stages : stackStatus[st]["ECR"] = "pending"
    /\ appStatus["ECR"] = "complete"

-----------------------------------------------------------------------------
(* Claims about the assembled app (checked under SpecApp) *)

\* C11: no credential is written into a stack as a literal: every credential
\* binding a statement has written is an opaque reference, no binding carries
\* a value of the secret store, and the statement would have written the
\* same binding in an account whose store holds any other values
C11_CredentialsOnlyByReference ==
    \A b \in props.credentials :
        /\ b.credential => b.value.kind # "literal"
        /\ b.value.text \notin { secretStore[n] : n \in SecretNames }
        /\ \A other \in Stores : b \in CredentialBindings(b.step, other)

\* the service stack of a stage has written the container's DB_PASSWORD
C11_Witness ==
    /\ site = "Prod" /\ cls = "DrupalServiceStack" /\ pc = "done"
    /\ \E b \in props.credentials :
          b.name = "secrets.DB_PASSWORD" /\ b.value.kind = "reference"

\* the handles among the constructor's arguments
PassedHandles(a) ==
    { h \in {a.vpc, a.database, a.repository, a.file_system} : ~Falsy(h) }

\* C12: every handle a stack receives was declared by exactly one stack
\* constructed before it at the same call site, the receiving stack does not
\* declare that construct again, and whatever it does with the handle changes
\* only constructs of its own
C12_SingleOwnerReadOnlyConsumers ==
    /\ \A u \in props.uses : u.changes \subseteq declared /\ u.handle \notin declared
    /\ \A h \in PassedHandles(args) :
          Cardinality({ e \in registry :
                          e.site = site /\ h.construct \in e.declared }) = 1

\* the service stack of app.py has granted its task definition pull access to
\* the repository of the ECR stack
C12_Witness ==
    /\ site = "app.py" /\ cls = "DrupalServiceStack" /\ pc = "done"
    /\ \E u \in props.uses :
          /\ u.handle = "DrupalRepository" /\ u.op = "grant_pull"
          /\ u.changes = {"DrupalTaskDef"}

\* the declared subnets of one type
SubnetsOfType(t) == { n \in props.subnets : n.subnet_type = t }

\* C15: the network stack declares exactly 4 subnets, 2 public and 2
\* private; their number is the number of zones times the number of subnet
\* types, and every zone has one NAT gateway
C15_SubnetsPerZoneAndType ==
    (cls = "NetworkStack" /\ "DrupalVPC" \in declared) =>
        /\ Cardinality(props.subnets) = 4
        /\ Cardinality(SubnetsOfType("PUBLIC")) = 2
        /\ Cardinality(SubnetsOfType("PRIVATE_WITH_EGRESS")) = 2
        /\ Cardinality(props.subnets) =
               Cardinality(props.zones)
                 * Cardinality({ n.subnet_type : n \in props.subnets })
        /\ props.nat_zones = props.zones

\* the network stack of the Dev stage has declared its VPC in an account and
\* region that offer three zones
C15_Witness ==
    /\ site = "Dev" /\ cls = "NetworkStack" /\ pc = "done"
    /\ env.account # NoneStr /\ env.region # NoneStr /\ env.zones > MaxAzs
    /\ Cardinality(props.subnets) = 4

\* C19: no two of the stacks constructed for one account and region declare
\* a resource under the same fixed physical name
C19_PhysicalNamesUnique ==
    \A e1, e2 \in registry :
        (e1 # e2 /\ e1.account = e2.account /\ e1.region = e2.region) =>
            e1.names \cap e2.names = {}

-----------------------------------------------------------------------------
(* Further claims about assembly (checked under SpecAsm) *)

\* C13: a database stack given a VPC without private subnets has declared
\* nothing, neither security group nor secret nor cluster, at any point of
\* its construction, and its construction does not complete
C13_NoPrivateSubnetsFailsBeforeDeclaring ==
    (/\ cls = "DatabaseStack" /\ ~Falsy(args.vpc)
     /\ "PRIVATE_WITH_EGRESS" \notin args.vpc.subnet_types)
        => declared = {} /\ pc # "done"

\* C14: each of the four alarms is breached by exactly the datapoints that
\* are strictly greater than 90 (CPU), 10 (5XX count), 5 (p95 response time)
\* and 0 (unhealthy hosts)
C14_AlarmsFireStrictlyAbove ==
    \A a \in props.alarms : \A v \in 0..MaxSample :
        Breaches(a, v) <=>
            v > (CASE a.id = "DrupalServiceHighCPU" -> 90
                   [] a.id = "DrupalService5XX" -> 10
                   [] a.id = "DrupalServiceHighLatency" -> 5
                   [] a.id = "DrupalServiceHealthCheckFailures" -> 0)

\* C18: once the service stack's validation has run, a call with an absent
\* vpc has raised the ValueError about the vpc, else one with an absent
\* database the one about the database, else one with an absent repository
\* or a repository without name the one about the repository, each with
\* nothing declared in the stack; a call with all three handles and a
\* repository name has raised no ValueError
C18_ValidationBeforeDeclaring ==
    (cls = "DrupalServiceStack" /\ pc # "validate") =>
        LET Raised(e) == pc = "raised" /\ err = e /\ declared = {}
        IN  CASE Falsy(args.vpc) -> Raised("ValueError: VPC must be provided")
              [] ~Falsy(args.vpc) /\ Falsy(args.database) ->
                   Raised("ValueError: Database cluster must be provided")
              [] ~Falsy(args.vpc) /\ ~Falsy(args.database)
                   /\ Falsy(args.repository) ->
                   Raised("ValueError: ECR repository must be provided")
              [] ~Falsy(args.vpc) /\ ~Falsy(args.database)
                   /\ ~Falsy(args.repository)
                   /\ args.repository.repository_name \in {NoneStr, ""} ->
                   Raised("ValueError: ECR repository name is not valid")
              [] OTHER -> err = "none"

\* a call with a vpc but neither database nor repository has raised the
\* error about the database
C18_Witness ==
    /\ cls = "DrupalServiceStack" /\ site = "direct"
    /\ ~Falsy(args.vpc) /\ Falsy(args.database) /\ Falsy(args.repository)
    /\ pc = "raised" /\ err = "ValueError: Database cluster must be provided"
    /\ declared = {}

=============================================================================
